---- MODULE Spec2Model ----
(***************************************************************************)
(* A model of eNMS's job scheduling and workflow subsystem:                *)
(*   - AutomationController (src/eNMS/controller/automation.py),           *)
(*   - BaseController       (src/eNMS/controller/base.py),                 *)
(*   - Task                 (src/eNMS/models/events.py).                   *)
(* The run engine (eNMS.concurrency.run_job, Job.run) and the database     *)
(* helpers (eNMS.database.functions) are not part of the sources at hand;  *)
(* where a property needs them they are modelled from the written          *)
(* specification and marked as such.                                       *)
(*                                                                         *)
(* The module holds several specifications over one set of variables.     *)
(* Each specification drives one group of variables and leaves the other   *)
(* groups at their initial value.                                          *)
(***************************************************************************)
EXTENDS Integers, Sequences, FiniteSets, TLC

VARIABLES
    clock,      \* number of get_time() calls so far: datetime.now() as a counter
    ret,        \* what the last controller call returned to its caller
    status,     \* Job.status of every job: "Idle" or "Running"
    sched,      \* one-shot jobs the controller added to the scheduler, not fired yet
    inflight,   \* executions of jobs that have started and not finished
    results,    \* stored workflow-level Results
    task,       \* the Task rows, by task id
    timers,     \* the scheduler's job store: the timers registered by tasks
    nextUid,    \* number of timers created so far (a timer's identity)
    pool,       \* the devices currently in each pool
    lastFire,   \* the call the scheduler dispatched at the last timer fire
    instances,  \* the executor's running instances, by scheduler job id
    wfs,        \* the ids of the Workflow rows
    wfJobs,     \* Workflow.jobs, by workflow id
    edges,      \* the WorkflowEdge rows
    nextEdge,   \* number of WorkflowEdge rows created so far (the last edge id)
    last_modified, \* Workflow.last_modified, by workflow id
    positions,  \* Job.positions: by job and workflow, the position or 0
    eEdges,     \* the edges of the workflow being run
    eStart,     \* the start points given to the run
    eState,     \* the state of every member job in the run
    eligible,   \* the jobs marked eligible and not entered yet
    visited,    \* the jobs visited in the run
    eCount,     \* how many times each job was executed in the run
    eResults,   \* the Results written by the run
    ePhase,     \* "idle" (no run), "run" or "done"
    svcTargets, \* the target devices of the leaf service being run
    svcInvoked, \* the devices the driver was invoked for
    svcResults, \* the Results the service run has written
    svcSuccess, \* the success of the service job, set at the final join
    svcPhase,   \* "idle" (no run), "run" or "done"
    runs        \* the Run rows of the result store, with their Results

varsRun == <<status, sched, inflight, results>>
varsTask == <<task, timers, nextUid, pool, lastFire, instances>>
varsWf == <<wfs, wfJobs, edges, nextEdge, last_modified, positions>>
varsEng == <<eEdges, eStart, eState, eligible, visited, eCount, eResults, ePhase>>
varsSvc == <<svcTargets, svcInvoked, svcResults, svcSuccess, svcPhase>>
vars == <<clock, ret, varsRun, varsTask, varsWf, varsEng, varsSvc, runs>>

\* What the actions of one group leave alone.
restRun == <<varsTask, varsWf, varsEng, varsSvc, runs>>
restTask == <<varsRun, varsWf, varsEng, varsSvc, runs>>
restWf == <<varsRun, varsTask, varsEng, varsSvc, runs>>
restEng == <<varsRun, varsTask, varsWf, varsSvc, runs>>
restSvc == <<varsRun, varsTask, varsWf, varsEng, runs>>
restRes == <<varsRun, varsTask, varsWf, varsEng, varsSvc>>

\* ---------------------------------------------------------------- bounds

\* get_time() is called at most MaxTime times in a behaviour.
MaxTime == 4

\* The scheduler creates at most MaxUid timers in a behaviour.
MaxUid == 3

\* At most MaxEdges WorkflowEdge rows are created in a behaviour.
MaxEdges == 3

\* A workflow that is run has at most MaxGraphEdges edges.
MaxGraphEdges == 2

\* When the scheduler wakes up, at most MaxDue run times of a timer are due.
MaxDue == 2

\* The first MaxFires run times of an interval trigger are computed.
MaxFires == 3

\* ------------------------------------------------------------ shared parts

NoRet == [op |-> "none"]

\* BaseController.get_time: str(datetime.now()); the k-th call from now on.
get_time(k) == clock + k

\* ============================================================ run control

\* Job 1 is a Workflow, job 2 a Service.
Jobs == {1, 2}
WorkflowIds == {1}
JobType(j) == IF j \in WorkflowIds THEN "Workflow" ELSE "Service"

\* Names of the child jobs whose results a workflow Result holds.
ChildNames == {"a", "b"}

\* The inputs of restart_workflow enumerated by the model.
IncludeSets == {{"a"}, {"a", "b"}}
StartPointSets == {{"a"}}

InitRun ==
    /\ status = [j \in Jobs |-> "Idle"]
    /\ sched = {}
    /\ inflight = {}
    /\ results = {}

\* fetch("Result", allow_none=True, job_id=..., runtime=...): the matching
\* Results (at most one is stored per job and runtime).
FetchResult(job_id, runtime) ==
    {r \in results : r.job_id = job_id /\ r.runtime = runtime}

\* restart_workflow with payloads_to_include applied to the nested keys too.
RestartPayload_recursive(workflow_id, payload_version, payloads_to_include) ==
    LET found == FetchResult(workflow_id, payload_version)
        payload == IF found = {} THEN {} ELSE (CHOOSE r \in found : TRUE).payload
    IN  {[key |-> p.key,
          value |-> {q \in p.value : q.key \in payloads_to_include}] :
            p \in {p \in payload : p.key \in payloads_to_include}}

\* restart_workflow, lines 225-233: the payload handed to the run.
RestartPayload(workflow_id, payload_version, payloads_to_include) ==
    LET found == FetchResult(workflow_id, payload_version)
        payload == IF found = {} THEN {} ELSE (CHOOSE r \in found : TRUE).payload
        payload_jobs == {p.key : p \in payload} \cap payloads_to_include
    IN  {p \in payload : p.key \in payload_jobs}

\* job.serialized: the properties of the job the model holds.
serialized(j) == [id |-> j, type |-> JobType(j)]

\* run_job with the run scheduled under the time of the scheduler job id.
run_job_start_by_id(j, asynchronous) ==
    LET runtime == get_time(1) IN
    IF asynchronous
    THEN /\ clock + 2 <= MaxTime
         /\ clock' = clock + 2
         /\ sched' = sched \cup
               {[id |-> get_time(2), caller |-> "run_job", job |-> j,
                 runtime |-> get_time(2), payload |-> {}, start_points |-> {}]}
         /\ ret' = [op |-> "run_job", job |-> j, error |-> "",
                    serialized |-> serialized(j), runtime |-> runtime]
         /\ UNCHANGED <<status, inflight, results, restRun>>
    ELSE \* job.run(runtime=runtime): the run starts inside the call
         /\ clock + 1 <= MaxTime
         /\ clock' = clock + 1
         /\ status' = [status EXCEPT ![j] = "Running"]
         /\ inflight' = inflight \cup {[job |-> j, runtime |-> runtime]}
         /\ ret' = [op |-> "run_job", job |-> j, error |-> "",
                    serialized |-> serialized(j), runtime |-> runtime]
         /\ UNCHANGED <<sched, results, restRun>>

\* run_job, lines 251-263: the call once the status guard has passed.
run_job_start(j, asynchronous) ==
    LET runtime == get_time(1) IN
    IF asynchronous
    THEN /\ clock + 2 <= MaxTime
         /\ clock' = clock + 2
         /\ sched' = sched \cup
               {[id |-> get_time(2), caller |-> "run_job", job |-> j,
                 runtime |-> runtime, payload |-> {}, start_points |-> {}]}
         /\ ret' = [op |-> "run_job", job |-> j, error |-> "",
                    serialized |-> serialized(j), runtime |-> runtime]
         /\ UNCHANGED <<status, inflight, results, restRun>>
    ELSE \* job.run(runtime=runtime): the run starts inside the call
         /\ clock + 1 <= MaxTime
         /\ clock' = clock + 1
         /\ status' = [status EXCEPT ![j] = "Running"]
         /\ inflight' = inflight \cup {[job |-> j, runtime |-> runtime]}
         /\ ret' = [op |-> "run_job", job |-> j, error |-> "",
                    serialized |-> serialized(j), runtime |-> runtime]
         /\ UNCHANGED <<sched, results, restRun>>

\* run_job with the status guard left out.
run_job_unguarded(j, asynchronous) == run_job_start(j, asynchronous)

\* AutomationController.run_job. The job is fetched by kwargs["name"] and run
\* by kwargs["id"]; the form that posts run_job fills both from one job.
run_job(j, asynchronous) ==
    IF status[j] = "Running"
    THEN /\ ret' = [op |-> "run_job", job |-> j,
                    error |-> JobType(j) \o " is already running."]
         /\ UNCHANGED <<clock, varsRun, restRun>>
    ELSE run_job_start(j, asynchronous)

\* AutomationController.restart_workflow.
restart_workflow(w, payload_version, payloads_to_include, start_points) ==
    LET payload == RestartPayload(w, payload_version, payloads_to_include) IN
    IF status[w] = "Running"
    THEN /\ ret' = [op |-> "restart_workflow", job |-> w,
                    error |-> "Workflow is already running."]
         /\ UNCHANGED <<clock, varsRun, restRun>>
    ELSE /\ clock + 1 <= MaxTime
         /\ clock' = clock + 1
         /\ sched' = sched \cup
               {[id |-> get_time(1), caller |-> "restart_workflow", job |-> w,
                 runtime |-> 0, payload |-> payload,
                 start_points |-> start_points]}
         /\ ret' = [op |-> "restart_workflow", job |-> w, error |-> "",
                    name |-> w]
         /\ UNCHANGED <<status, inflight, results, restRun>>

\* AutomationController.reset_status.
reset_status ==
    /\ status' = [j \in Jobs |-> "Idle"]
    /\ ret' = [op |-> "reset_status"]
    /\ UNCHANGED <<clock, sched, inflight, results, restRun>>

\* The run engine's entry (specification 4.4): fail fast when the job is
\* Running, else mark it Running and execute it under `runtime`.
Execute(j, runtime) ==
    IF status[j] = "Running"
    THEN UNCHANGED <<status, inflight>>
    ELSE /\ status' = [status EXCEPT ![j] = "Running"]
         /\ inflight' = inflight \cup {[job |-> j, runtime |-> runtime]}

\* The scheduler fires a one-shot job (trigger "date", run_date now): the job
\* leaves the job store and the run engine is entered off the request thread.
FireDate(d) ==
    /\ d \in sched
    /\ sched' = sched \ {d}
    /\ IF d.caller = "run_job"
       THEN /\ Execute(d.job, d.runtime)
            /\ UNCHANGED clock
       ELSE /\ clock + 1 <= MaxTime
            /\ clock' = clock + 1
            /\ Execute(d.job, get_time(1))
    /\ UNCHANGED <<ret, results, restRun>>

\* A Task's timer fires (Task.kwargs: func threaded_job, args job.id, ...):
\* the run engine is entered for the task's job.
TaskFire(j) ==
    /\ clock + 1 <= MaxTime
    /\ clock' = clock + 1
    /\ Execute(j, get_time(1))
    /\ UNCHANGED <<ret, sched, results, restRun>>

\* What a workflow Result holds under the name of a child: a dict again, here
\* with the child names as its keys.
ChildResult(runtime) == {[key |-> k, value |-> runtime] : k \in ChildNames}

\* An execution finishes (specification 4.4, side effects): the job leaves
\* Running and, for a workflow, one global Result holding the children's
\* results is stored under the run's runtime.
RunEnd(e, keys) ==
    /\ e \in inflight
    /\ inflight' = inflight \ {e}
    /\ status' = [status EXCEPT ![e.job] = "Idle"]
    /\ results' =
          IF e.job \in WorkflowIds
          THEN results \cup
                 {[job_id |-> e.job, runtime |-> e.runtime,
                   payload |-> {[key |-> k, value |-> ChildResult(e.runtime)] :
                                   k \in keys}]}
          ELSE results
    /\ UNCHANGED <<clock, ret, sched, restRun>>

\* ================================================================== tasks

TaskIds == {1}
Devices == {1, 2}
Pools == {1, 2}

\* The pool memberships enumerated by the model.
PoolSets == {{}, {2}}

\* A date in the wire format DD/MM/YYYY HH:MM:SS is <<DD, MM, YYYY, HH, MM, SS>>;
\* a date handed to the scheduler is <<YYYY, MM, DD, HH, MM, SS>>; <<>> is None.
NoDate == <<>>
DateA == <<1, 2, 2030, 8, 0, 0>>
DateB == <<3, 2, 2030, 8, 0, 0>>

\* A crontab expression is the sequence of its fields; <<>> is the empty string.
\* The scheduler job ids a caller may pass as kwargs["aps_job_id"]; 0 is none given.
GivenApsIds == {100}

\* The property sets Task.__init__ and Task.update receive.
TaskForms ==
    {[is_active |-> TRUE, scheduling_mode |-> "standard", crontab_expression |-> <<>>,
      frequency |-> 0, frequency_unit |-> "seconds", start_date |-> DateA,
      end_date |-> NoDate, payload |-> "p0", devices |-> {1}, pools |-> {}, job |-> 1],
     [is_active |-> TRUE, scheduling_mode |-> "standard", crontab_expression |-> <<>>,
      frequency |-> 2, frequency_unit |-> "minutes", start_date |-> DateA,
      end_date |-> DateB, payload |-> "p1", devices |-> {}, pools |-> {1}, job |-> 2],
     [is_active |-> TRUE, scheduling_mode |-> "cron", crontab_expression |-> <<"0", "*", "*", "*", "*">>,
      frequency |-> 0, frequency_unit |-> "seconds", start_date |-> NoDate,
      end_date |-> NoDate, payload |-> "p0", devices |-> {1}, pools |-> {1}, job |-> 1],
     [is_active |-> FALSE, scheduling_mode |-> "standard", crontab_expression |-> <<>>,
      frequency |-> 3, frequency_unit |-> "hours", start_date |-> NoDate,
      end_date |-> NoDate, payload |-> "p1", devices |-> {2}, pools |-> {}, job |-> 2]}

\* The pools some form binds; the membership of the others plays no part.
FormPools == UNION {f.pools : f \in TaskForms}

NoTask ==
    [exists |-> FALSE, is_active |-> FALSE, scheduling_mode |-> "standard",
     crontab_expression |-> <<>>, frequency |-> 0, frequency_unit |-> "seconds",
     start_date |-> NoDate, end_date |-> NoDate, payload |-> "p0", devices |-> {},
     pools |-> {}, job |-> 1, periodic |-> FALSE, creation_time |-> 0,
     aps_job_id |-> 0]

NoFire == [id |-> 0]

\* The scheduler's job defaults (BaseController.init_scheduler).
max_instances == 3
coalesce == TRUE

\* The ids a scheduler job can have: a creation time or a given id.
TimerIds == (1..MaxTime) \cup GivenApsIds \cup {50}

\* The job store is durable (base.py, line 238): at start-up it holds a timer
\* registered by an earlier process for a task outside TaskIds, paused since.
PersistedTimer ==
    [id |-> 50, uid |-> 0, trigger |-> [trigger |-> "cron", crontab |-> <<"0", "0", "*", "*", "*">>],
     args |-> <<2, 50, {}, "p0">>, paused |-> TRUE]

InitTask ==
    /\ task = [t \in TaskIds |-> NoTask]
    /\ timers = {PersistedTimer}
    /\ nextUid = 0
    /\ pool = [p \in Pools |-> {2}]
    /\ lastFire = NoFire
    /\ instances = [id \in TimerIds |-> 0]

\* The tasks, timers and timer count a Task method works on, and the
\* exception it ends with ("" when it returns).
Store == [task |-> task, timers |-> timers, nextUid |-> nextUid, exc |-> ""]

\* ---- the scheduler (apscheduler.schedulers.background.BackgroundScheduler)

\* scheduler.get_job(id): the timers stored under id.
get_job(S, id) == {x \in S.timers : x.id = id}

\* scheduler.add_job with an id of the scheduler's own making.
add_job_own_id(S, default, trigger) ==
    [S EXCEPT !.timers = S.timers \cup
                  {[id |-> S.nextUid + 1, uid |-> S.nextUid + 1, trigger |-> trigger,
                    args |-> default.args, paused |-> FALSE]},
              !.nextUid = S.nextUid + 1]

\* scheduler.add_job(**{**default, **trigger}) with replace_existing=True.
add_job(S, default, trigger) ==
    [S EXCEPT !.timers = {x \in S.timers : x.id # default.id} \cup
                  {[id |-> default.id, uid |-> S.nextUid + 1, trigger |-> trigger,
                    args |-> default.args, paused |-> FALSE]},
              !.nextUid = S.nextUid + 1]

\* scheduler.reschedule_job(id, **trigger): the stored job gets the new trigger
\* and a next run time computed from it.
reschedule_job(S, id, trigger) ==
    IF get_job(S, id) = {}
    THEN [S EXCEPT !.exc = "JobLookupError"]
    ELSE [S EXCEPT !.timers =
            {IF x.id = id THEN [x EXCEPT !.trigger = trigger, !.paused = FALSE]
                          ELSE x : x \in S.timers}]

\* scheduler.pause_job(id).
pause_job(S, id) ==
    IF get_job(S, id) = {}
    THEN [S EXCEPT !.exc = "JobLookupError"]
    ELSE [S EXCEPT !.timers =
            {IF x.id = id THEN [x EXCEPT !.paused = TRUE] ELSE x : x \in S.timers}]

\* scheduler.resume_job(id).
resume_job(S, id) ==
    IF get_job(S, id) = {}
    THEN [S EXCEPT !.exc = "JobLookupError"]
    ELSE [S EXCEPT !.timers =
            {IF x.id = id THEN [x EXCEPT !.paused = FALSE] ELSE x : x \in S.timers}]

\* scheduler.remove_job(id).
remove_job(S, id) ==
    IF get_job(S, id) = {}
    THEN [S EXCEPT !.exc = "JobLookupError"]
    ELSE [S EXCEPT !.timers = {x \in S.timers : x.id # id}]

\* ---- Task

\* Task.aps_conversion: "%d/%m/%Y %H:%M:%S" to "%Y-%m-%d %H:%M:%S".
aps_conversion(date) == <<date[3], date[2], date[1], date[4], date[5], date[6]>>

\* Task.aps_date.
aps_date(row, datetype) ==
    LET date == row[datetype] IN
    IF date # NoDate THEN aps_conversion(date) ELSE NoDate

\* Task.compute_targets without the pools.
compute_targets_devices_only(row) == row.devices

\* Task.compute_targets.
compute_targets(row) == row.devices \cup UNION {pool[p] : p \in row.pools}

\* Every frequency unit taken for a minute.
UnitSeconds_minutes(unit) == 60

\* The seconds in one frequency unit (Task.kwargs, line 159).
UnitSeconds(unit) ==
    CASE unit = "seconds" -> 1
      [] unit = "minutes" -> 60
      [] unit = "hours" -> 3600
      [] unit = "days" -> 86400

\* Task.kwargs with the frequency looked at before the scheduling mode.
kwargs_frequency_first(row) ==
    LET default == [id |-> row.aps_job_id, func |-> "threaded_job",
                    replace_existing |-> TRUE,
                    args |-> <<row.job, row.aps_job_id, compute_targets(row),
                               row.payload>>]
    IN  IF row.frequency # 0
        THEN [default |-> default, periodic |-> TRUE, exc |-> "",
              trigger |-> [trigger |-> "interval",
                           start_date |-> aps_date(row, "start_date"),
                           end_date |-> aps_date(row, "end_date"),
                           seconds |-> row.frequency * UnitSeconds(row.frequency_unit)]]
        ELSE IF row.scheduling_mode = "cron" /\ Len(row.crontab_expression) = 5
        THEN [default |-> default, periodic |-> TRUE, exc |-> "",
              trigger |-> [trigger |-> "cron", crontab |-> row.crontab_expression]]
        ELSE [default |-> default, periodic |-> FALSE, exc |-> "",
              trigger |-> [trigger |-> "date", run_date |-> aps_date(row, "start_date")]]

\* Task.kwargs: the scheduler arguments, the trigger, the value it assigns to
\* self.periodic, and the exception it ends with: CronTrigger.from_crontab
\* raises ValueError unless the expression has five fields.
kwargs(row) ==
    LET default == [id |-> row.aps_job_id, func |-> "threaded_job",
                    replace_existing |-> TRUE,
                    args |-> <<row.job, row.aps_job_id, compute_targets(row),
                               row.payload>>]
    IN  IF row.scheduling_mode = "cron"
        THEN IF Len(row.crontab_expression) = 5
             THEN [default |-> default, periodic |-> TRUE, exc |-> "",
                   trigger |-> [trigger |-> "cron",
                                crontab |-> row.crontab_expression]]
             ELSE [default |-> default, periodic |-> TRUE, exc |-> "ValueError",
                   trigger |-> [trigger |-> "none"]]
        ELSE IF row.frequency # 0
        THEN [default |-> default, periodic |-> TRUE, exc |-> "",
              trigger |-> [trigger |-> "interval",
                           start_date |-> aps_date(row, "start_date"),
                           end_date |-> aps_date(row, "end_date"),
                           seconds |-> row.frequency * UnitSeconds(row.frequency_unit)]]
        ELSE [default |-> default, periodic |-> FALSE, exc |-> "",
              trigger |-> [trigger |-> "date", run_date |-> aps_date(row, "start_date")]]

\* Task.schedule with the get_job test left out: a new timer at every call.
schedule_always_adds(S, t) ==
    LET kw == kwargs(S.task[t])
        S1 == [S EXCEPT !.task[t].periodic = kw.periodic]
    IN  add_job(S1, kw.default, kw.trigger)

\* Task.schedule.
schedule(S, t) ==
    LET kw == kwargs(S.task[t])
        S1 == [S EXCEPT !.task[t].periodic = kw.periodic]
    IN  IF kw.exc # "" THEN [S1 EXCEPT !.exc = kw.exc]
        ELSE IF get_job(S1, S.task[t].aps_job_id) = {}
        THEN add_job(S1, kw.default, kw.trigger)
        ELSE reschedule_job(S1, kw.default.id, kw.trigger)

\* Task.pause that only marks the row and leaves the scheduler alone.
pause_row_only(S, t) == [S EXCEPT !.task[t].is_active = FALSE]

\* Task.pause.
pause(S, t) ==
    LET S1 == pause_job(S, S.task[t].aps_job_id) IN
    IF S1.exc # "" THEN S1 ELSE [S1 EXCEPT !.task[t].is_active = FALSE]

\* Task.resume.
resume(S, t) ==
    LET S1 == schedule(S, t)
        S2 == IF S1.exc # "" THEN S1 ELSE resume_job(S1, S1.task[t].aps_job_id)
    IN  IF S2.exc # "" THEN S2 ELSE [S2 EXCEPT !.task[t].is_active = TRUE]

\* Task.delete_task that only commits.
delete_task_commit_only(S, t) == S

\* Task.delete_task.
delete_task(S, t) ==
    IF get_job(S, S.task[t].aps_job_id) # {}
    THEN remove_job(S, S.task[t].aps_job_id)
    ELSE S

TaskActions == {"pause", "resume", "delete_task"}

\* getattr(fetch("Task", id=task_id), action)().
CallTask(action, S, t) ==
    CASE action = "pause" -> pause(S, t)
      [] action = "resume" -> resume(S, t)
      [] action = "delete_task" -> delete_task(S, t)

\* task_action that lets JobLookupError through to its caller.
task_action_uncaught(action, t) ==
    /\ task[t].exists
    /\ LET r == CallTask(action, Store, t) IN
       /\ r.nextUid <= MaxUid
       /\ task' = r.task
       /\ timers' = r.timers
       /\ nextUid' = r.nextUid
       /\ ret' = [op |-> "task_action", action |-> action, task |-> t,
                  error |-> "", raised |-> r.exc]
    /\ UNCHANGED <<clock, pool, lastFire, instances, restTask>>

\* AutomationController.task_action.
task_action(action, t) ==
    /\ task[t].exists
    /\ LET r == CallTask(action, Store, t) IN
       /\ r.nextUid <= MaxUid
       /\ task' = r.task
       /\ timers' = r.timers
       /\ nextUid' = r.nextUid
       /\ ret' = IF r.exc = "JobLookupError"
                 THEN [op |-> "task_action", action |-> action, task |-> t,
                       error |-> "This task no longer exists.", raised |-> ""]
                 ELSE [op |-> "task_action", action |-> action, task |-> t,
                       error |-> "", raised |-> r.exc]
    /\ UNCHANGED <<clock, pool, lastFire, instances, restTask>>

\* What is left of a deleted row: its id is not used again, and the model
\* remembers the aps_job_id it had.
Deleted(row) == [NoTask EXCEPT !.aps_job_id = row.aps_job_id]

\* BaseController.delete_instance("Task", t): deleting removes the live timer,
\* then the row.
delete_instance(t) ==
    /\ task[t].exists
    /\ LET r == delete_task(Store, t) IN
       /\ task' = [r.task EXCEPT ![t] = Deleted(r.task[t])]
       /\ timers' = r.timers
       /\ ret' = [op |-> "delete_instance", task |-> t, raised |-> r.exc]
    /\ UNCHANGED <<clock, nextUid, pool, lastFire, instances, restTask>>

\* The properties of a form written into a row (AbstractBase.update).
WithForm(row, f) ==
    [row EXCEPT !.is_active = f.is_active, !.scheduling_mode = f.scheduling_mode,
                !.crontab_expression = f.crontab_expression,
                !.frequency = f.frequency, !.frequency_unit = f.frequency_unit,
                !.start_date = f.start_date, !.end_date = f.end_date,
                !.payload = f.payload, !.devices = f.devices, !.pools = f.pools,
                !.job = f.job]

\* Task.__init__: a Task row is created from a form; given is kwargs["aps_job_id"].
TaskCreate(t, f, given) ==
    /\ task[t] = NoTask
    /\ clock + 1 <= MaxTime
    /\ clock' = clock + 1
    /\ LET row == [WithForm(NoTask, f) EXCEPT
                      !.exists = TRUE, !.creation_time = get_time(1),
                      !.aps_job_id = IF given # 0 THEN given ELSE get_time(1)]
           S == [Store EXCEPT !.task[t] = row]
           r == IF row.is_active THEN schedule(S, t) ELSE S
       IN  /\ r.nextUid <= MaxUid
           /\ task' = r.task
           /\ timers' = r.timers
           /\ nextUid' = r.nextUid
           /\ ret' = [op |-> "create", task |-> t, raised |-> r.exc]
    /\ UNCHANGED <<pool, lastFire, instances, restTask>>

\* Task.update.
TaskUpdate(t, f) ==
    /\ task[t].exists
    /\ LET S == [Store EXCEPT !.task[t] = WithForm(task[t], f)]
           r == IF S.task[t].is_active THEN schedule(S, t) ELSE S
       IN  /\ r.nextUid <= MaxUid
           /\ task' = r.task
           /\ timers' = r.timers
           /\ nextUid' = r.nextUid
           /\ ret' = [op |-> "update", task |-> t, raised |-> r.exc]
    /\ UNCHANGED <<clock, pool, lastFire, instances, restTask>>

\* A timer that may have fired for the last time: a date trigger always has,
\* an interval trigger with an end date may have, a cron trigger never has.
MayEnd(x) ==
    \/ x.trigger.trigger = "date"
    \/ x.trigger.trigger = "interval" /\ x.trigger.end_date # NoDate

\* The calls of a fire without the limit on running instances and without
\* coalescing.
Calls_every_run_time(id, due, late) == IF late THEN 0 ELSE due

\* The calls of func the executor makes for a timer with `due` run times due:
\* none when max_instances instances of the job are running (the fire is
\* skipped) or when the run time is later than misfire_grace_time; with
\* coalesce one call for all the due run times, else one call each.
Calls(id, due, late) ==
    IF instances[id] >= max_instances \/ late THEN 0
    ELSE IF coalesce THEN 1 ELSE due

\* A live timer fires: the scheduler submits func(*args) to the executor,
\* which runs it on a worker thread, and drops a timer that has no next run
\* time.
Fire(x, last, due, late) ==
    /\ x \in timers
    /\ ~x.paused
    /\ last => MayEnd(x)
    /\ x.trigger.trigger = "date" => last /\ due = 1
    /\ lastFire' = [id |-> x.id, args |-> x.args,
                    calls |-> Calls(x.id, due, late)]
    /\ instances' = IF Calls(x.id, due, late) > 0
                    THEN [instances EXCEPT ![x.id] = @ + 1]
                    ELSE instances
    /\ timers' = IF last THEN timers \ {x} ELSE timers
    /\ UNCHANGED <<clock, ret, task, nextUid, pool, restTask>>

\* A running instance of a scheduler job returns.
RunDone(id) ==
    /\ instances[id] > 0
    /\ instances' = [instances EXCEPT ![id] = @ - 1]
    /\ UNCHANGED <<clock, ret, task, timers, nextUid, pool, lastFire, restTask>>

\* BackgroundScheduler.start() with a job store kept in memory: a new process
\* starts without timers.
scheduler_start_memory(store) == {}

\* BackgroundScheduler.start() with the job store init_scheduler configures,
\* type "sqlalchemy" on sqlite:///jobs.sqlite: the scheduler of a new process
\* holds the timers the store has kept, the paused ones paused.
scheduler_start(store) == store

\* The process restarts: BaseController.__init__ calls init_scheduler. The
\* Task rows and the job store outlive the process; the instances the
\* executor of the old process was running do not.
init_scheduler ==
    /\ timers' = scheduler_start(timers)
    /\ instances' = [id \in TimerIds |-> 0]
    /\ ret' = [op |-> "init_scheduler"]
    /\ UNCHANGED <<clock, task, nextUid, pool, lastFire, restTask>>

\* The membership of a pool is recomputed (Pool.compute_pool).
PoolUpdate(p, ds) ==
    /\ pool[p] # ds
    /\ pool' = [pool EXCEPT ![p] = ds]
    /\ UNCHANGED <<clock, ret, task, timers, nextUid, lastFire, instances, restTask>>

\* ---- the trigger of a task

\* The rows Task.kwargs is applied to: every combination of the trigger
\* fields and of the bound devices and pools.
TriggerRows ==
    {[NoTask EXCEPT !.exists = TRUE, !.creation_time = 1, !.aps_job_id = 1,
                    !.scheduling_mode = m, !.crontab_expression = c,
                    !.frequency = f, !.frequency_unit = u,
                    !.start_date = sd, !.end_date = ed,
                    !.devices = ds, !.pools = ps] :
        m \in {"standard", "cron"},
        c \in {<<>>, <<"0", "*", "*", "*", "*">>, <<"0", "*", "*", "*">>},
        f \in {-1, 0, 2}, u \in {"seconds", "minutes", "hours", "days"},
        sd \in {NoDate, DateA}, ed \in {NoDate, DateB},
        ds \in {{}, {1}, {1, 2}}, ps \in SUBSET Pools}

InitTrigger ==
    /\ \E row \in TriggerRows : task = [t \in TaskIds |-> row]
    /\ \E a \in {{}, {2}}, b \in {{1}, {1, 2}} : pool = (1 :> a) @@ (2 :> b)
    /\ timers = {PersistedTimer}
    /\ nextUid = 0
    /\ lastFire = NoFire
    /\ instances = [id \in TimerIds |-> 0]

\* A call of Task.kwargs: what it returns or raises, and self.periodic.
CallKwargs(t) ==
    /\ task[t].exists
    /\ LET kw == kwargs(task[t]) IN
       /\ task' = [task EXCEPT ![t].periodic = kw.periodic]
       /\ ret' = [op |-> "kwargs", task |-> t, default |-> kw.default,
                  trigger |-> kw.trigger, raised |-> kw.exc]
    /\ UNCHANGED <<clock, timers, nextUid, pool, lastFire, instances, restTask>>

\* A date handed to the scheduler, in seconds since 2030-02-01 00:00:00 (for
\* the dates of that month).
Seconds(date) ==
    (date[3] - 1) * 86400 + date[4] * 3600 + date[5] * 60 + date[6]

\* The times, in those seconds, at which the scheduler may build a trigger.
Nows == {0, 30000}

\* ceil(a / b) for a >= 0, b > 0.
Ceil(a, b) == (a + b - 1) \div b

\* IntervalTrigger: the start date is the one given or now plus the interval.
IntervalStart(trigger, now) ==
    IF trigger.start_date # NoDate THEN Seconds(trigger.start_date)
    ELSE now + trigger.seconds

\* IntervalTrigger.get_next_fire_time(previous, now); -1 is None.
get_next_fire_time(trigger, start, previous, now) ==
    LET next == IF previous >= 0 THEN previous + trigger.seconds
                ELSE IF start > now THEN start
                ELSE start + Ceil(now - start, trigger.seconds) * trigger.seconds
    IN  IF trigger.end_date = NoDate \/ next <= Seconds(trigger.end_date)
        THEN next ELSE -1

\* The first n run times of an interval trigger built at `now`.
RECURSIVE RunTimes(_, _, _, _, _)
RunTimes(trigger, start, previous, now, n) ==
    LET next == get_next_fire_time(trigger, start, previous, now) IN
    IF n = 0 \/ next < 0 THEN <<>>
    ELSE <<next>> \o RunTimes(trigger, start, next, now, n - 1)

\* The scheduler builds the interval trigger Task.kwargs returned, of a
\* positive interval, and fires it MaxFires times at most.
IntervalRunTimes(now) ==
    /\ ret.op = "kwargs"
    /\ ret.trigger.trigger = "interval"
    /\ ret.trigger.seconds > 0
    /\ ret' = [op |-> "run_times", task |-> ret.task, trigger |-> ret.trigger,
               now |-> now,
               times |-> RunTimes(ret.trigger, IntervalStart(ret.trigger, now),
                                  -1, now, MaxFires)]
    /\ UNCHANGED <<clock, varsTask, restTask>>

\* ============================================================== workflows

\* The jobs that can be members of a workflow, and the workflow ids: workflow
\* 11 exists at the start, 12 is the id a duplicate gets. A workflow's name
\* is modelled by its id.
NodeIds == {1, 2}
WfIds == {11, 12}
Subtypes == {"success", "failure"}

\* The positions save_positions may store for a job; 0 is no position.
PosValues == {1, 2}

InitWf ==
    /\ wfs = {11}
    /\ wfJobs = [w \in WfIds |-> {}]
    /\ edges = {}
    /\ nextEdge = 0
    /\ last_modified = [w \in WfIds |-> 0]
    /\ positions = [j \in NodeIds |-> [w \in WfIds |-> 0]]

\* f"{workflow_id}-{subtype}:{source}->{destination}".
EdgeName(workflow_id, subtype, source, destination) ==
    <<workflow_id, subtype, source, destination>>

\* factory("WorkflowEdge", **kwargs) for a name no edge has: a new row.
NewEdge(id, workflow_id, subtype, source, destination) ==
    [id |-> id, name |-> EdgeName(workflow_id, subtype, source, destination),
     workflow |-> workflow_id, subtype |-> subtype, source |-> source,
     destination |-> destination]

\* AutomationController.add_edge. The workflow builder posts an edge between
\* two nodes it displays, which are members of the workflow. The name column
\* is unique: a second edge of the same name ends in IntegrityError (the
\* error BaseController.update expects from factory).
add_edge(workflow_id, subtype, source, destination) ==
    /\ workflow_id \in wfs
    /\ {source, destination} \subseteq wfJobs[workflow_id]
    /\ IF \E e \in edges : e.name = EdgeName(workflow_id, subtype, source, destination)
       THEN /\ ret' = [op |-> "add_edge", workflow |-> workflow_id,
                       raised |-> "IntegrityError"]
            /\ UNCHANGED <<clock, varsWf>>
       ELSE /\ clock + 1 <= MaxTime
            /\ nextEdge + 1 <= MaxEdges
            /\ clock' = clock + 1
            /\ nextEdge' = nextEdge + 1
            /\ edges' = edges \cup
                  {NewEdge(nextEdge + 1, workflow_id, subtype, source, destination)}
            /\ last_modified' = [last_modified EXCEPT ![workflow_id] = get_time(1)]
            /\ ret' = [op |-> "add_edge", workflow |-> workflow_id, raised |-> "",
                       edge |-> nextEdge + 1, update_time |-> get_time(1)]
            /\ UNCHANGED <<wfs, wfJobs, positions>>
    /\ UNCHANGED restWf

\* AutomationController.add_jobs_to_workflow.
add_jobs_to_workflow(workflow_id, job_ids) ==
    /\ workflow_id \in wfs
    /\ clock + 1 <= MaxTime
    /\ clock' = clock + 1
    /\ wfJobs' = [wfJobs EXCEPT ![workflow_id] = @ \cup job_ids]
    /\ last_modified' = [last_modified EXCEPT ![workflow_id] = get_time(1)]
    /\ ret' = [op |-> "add_jobs_to_workflow", workflow |-> workflow_id,
               raised |-> "", jobs |-> job_ids, update_time |-> get_time(1)]
    /\ UNCHANGED <<wfs, edges, nextEdge, positions, restWf>>

\* delete_edge without the write of last_modified.
delete_edge_silent(workflow_id, edge_id) ==
    /\ workflow_id \in wfs
    /\ \E e \in edges : e.id = edge_id
    /\ clock + 1 <= MaxTime
    /\ clock' = clock + 1
    /\ edges' = {e \in edges : e.id # edge_id}
    /\ ret' = [op |-> "delete_edge", workflow |-> workflow_id, raised |-> "",
               update_time |-> get_time(1)]
    /\ UNCHANGED <<wfs, wfJobs, nextEdge, last_modified, positions, restWf>>

\* AutomationController.delete_edge: the edge is deleted by its id alone.
delete_edge(workflow_id, edge_id) ==
    /\ workflow_id \in wfs
    /\ \E e \in edges : e.id = edge_id
    /\ clock + 1 <= MaxTime
    /\ clock' = clock + 1
    /\ edges' = {e \in edges : e.id # edge_id}
    /\ last_modified' = [last_modified EXCEPT ![workflow_id] = get_time(1)]
    /\ ret' = [op |-> "delete_edge", workflow |-> workflow_id, raised |-> "",
               update_time |-> get_time(1)]
    /\ UNCHANGED <<wfs, wfJobs, nextEdge, positions, restWf>>

\* AutomationController.delete_node; list.remove raises ValueError for a job
\* that is not a member.
delete_node(workflow_id, job_id) ==
    /\ workflow_id \in wfs
    /\ IF job_id \notin wfJobs[workflow_id]
       THEN /\ ret' = [op |-> "delete_node", workflow |-> workflow_id,
                       raised |-> "ValueError"]
            /\ UNCHANGED <<clock, varsWf>>
       ELSE /\ clock + 1 <= MaxTime
            /\ clock' = clock + 1
            /\ wfJobs' = [wfJobs EXCEPT ![workflow_id] = @ \ {job_id}]
            /\ last_modified' = [last_modified EXCEPT ![workflow_id] = get_time(1)]
            /\ ret' = [op |-> "delete_node", workflow |-> workflow_id,
                       raised |-> "", job |-> job_id, update_time |-> get_time(1)]
            /\ UNCHANGED <<wfs, edges, nextEdge, positions>>
    /\ UNCHANGED restWf

\* The parent's jobs the loop of duplicate_workflow (lines 80-82) handles
\* before it stops: all of them, or those before the first job that has no
\* position for the parent (KeyError), in the order of the relationship.
CopiedJobs(parent) ==
    {j \in wfJobs[parent] :
        \A k \in wfJobs[parent] : k <= j => positions[k][parent] # 0}

\* The edges of the parent in some order (parent_workflow.edges).
RECURSIVE EdgeSeq(_)
EdgeSeq(es) ==
    IF es = {} THEN <<>>
    ELSE LET e == CHOOSE x \in es : \A y \in es : x.id <= y.id
         IN  <<e>> \o EdgeSeq(es \ {e})

\* AutomationController.duplicate_workflow; new_id is the id of the row that
\* factory("Workflow", **kwargs) creates.
duplicate_workflow(workflow_id, new_id) ==
    /\ workflow_id \in wfs
    /\ new_id \in WfIds \ wfs
    /\ LET copied == CopiedJobs(workflow_id)
           parent_edges == EdgeSeq({e \in edges : e.workflow = workflow_id})
           n == Len(parent_edges)
       IN  /\ wfs' = wfs \cup {new_id}
           /\ wfJobs' = [wfJobs EXCEPT ![new_id] = copied]
           /\ positions' = [j \in NodeIds |->
                 IF j \in copied
                 THEN [positions[j] EXCEPT ![new_id] = positions[j][workflow_id]]
                 ELSE positions[j]]
           /\ IF copied # wfJobs[workflow_id]
              THEN /\ ret' = [op |-> "duplicate_workflow", workflow |-> workflow_id,
                              raised |-> "KeyError"]
                   /\ UNCHANGED <<edges, nextEdge>>
              ELSE /\ nextEdge + n <= MaxEdges
                   /\ nextEdge' = nextEdge + n
                   /\ edges' = edges \cup
                         {NewEdge(nextEdge + i, new_id, parent_edges[i].subtype,
                                  parent_edges[i].source,
                                  parent_edges[i].destination) : i \in 1..n}
                   /\ ret' = [op |-> "duplicate_workflow", workflow |-> workflow_id,
                              raised |-> "", new |-> new_id]
    /\ UNCHANGED <<clock, last_modified, restWf>>

\* AutomationController.save_positions: request.json gives a position to each
\* job of job_ids.
save_positions(workflow_id, job_ids, position) ==
    /\ workflow_id \in wfs
    /\ clock + 1 <= MaxTime
    /\ clock' = clock + 1
    /\ last_modified' = [last_modified EXCEPT ![workflow_id] = get_time(1)]
    /\ positions' = [j \in NodeIds |->
          IF j \in job_ids THEN [positions[j] EXCEPT ![workflow_id] = position]
          ELSE positions[j]]
    /\ ret' = [op |-> "save_positions", workflow |-> workflow_id, raised |-> "",
               update_time |-> get_time(1)]
    /\ UNCHANGED <<wfs, wfJobs, edges, nextEdge, restWf>>

\* =========================================================== workflow runs
\* The workflow run of the run engine (Workflow.job) is not among the sources;
\* this part follows section 4.4 of the written specification.

EJobs == {"A", "B", "C"}
ESubtypes == {"success", "failure", "always"}

\* The edges a workflow may have, and the graphs a run is started on.
EdgeUniverse == [subtype : ESubtypes, source : EJobs, destination : EJobs]
RECURSIVE GraphsUpTo(_)
GraphsUpTo(n) ==
    IF n = 0 THEN {{}}
    ELSE LET smaller == GraphsUpTo(n - 1)
         IN  smaller \cup {g \cup {e} : g \in smaller, e \in EdgeUniverse}
Graphs == GraphsUpTo(MaxGraphEdges)

\* start_points as given by the caller; {} is unspecified.
StartChoices == {{}, {"A"}, {"A", "B"}}

\* The jobs a run starts with: start_points or, if unspecified, every job
\* with no incoming edge.
StartPoints(g, sp) ==
    IF sp # {} THEN sp
    ELSE {j \in EJobs : ~\E e \in g : e.destination = j}

\* No run: the state of the engine in the specifications of other parts.
EngineIdle ==
    /\ eEdges = {}
    /\ eStart = {}
    /\ eState = [j \in EJobs |-> "Pending"]
    /\ eligible = {}
    /\ visited = {}
    /\ eCount = [j \in EJobs |-> 0]
    /\ eResults = {}
    /\ ePhase = "idle"

\* A run begins on some workflow graph with some start points.
InitEngine ==
    /\ eEdges \in Graphs
    /\ eStart \in StartChoices
    /\ eState = [j \in EJobs |-> "Pending"]
    /\ eligible = StartPoints(eEdges, eStart)
    /\ visited = {}
    /\ eCount = [j \in EJobs |-> 0]
    /\ eResults = {}
    /\ ePhase = "run"

\* Every edge is followed, whatever the outcome.
Matches_any(subtype, ok) == TRUE

\* An edge is followed when its subtype matches the outcome of its source or
\* is unconditional.
Matches(subtype, ok) ==
    \/ subtype = "always"
    \/ subtype = "success" /\ ok
    \/ subtype = "failure" /\ ~ok

\* A job may be entered whenever it is eligible.
MayEnter_again(j) == TRUE

\* A job may be entered when it has not been visited in this run.
MayEnter(j) == j \notin visited

\* An eligible job becomes Running.
JobStart(j) ==
    /\ ePhase = "run"
    /\ j \in eligible
    /\ MayEnter(j)
    /\ eState' = [eState EXCEPT ![j] = "Running"]
    /\ visited' = visited \cup {j}
    /\ eligible' = eligible \ {j}
    /\ eCount' = [eCount EXCEPT ![j] = @ + 1]
    /\ UNCHANGED <<eEdges, eStart, eResults, ePhase, clock, ret, restEng>>

\* A job reached again after it was visited stays eligible.
JobRevisit_stays(j) ==
    /\ ePhase = "run"
    /\ j \in eligible
    /\ j \in visited
    /\ UNCHANGED vars

\* A job reached again after it was visited is not re-entered.
JobRevisit(j) ==
    /\ ePhase = "run"
    /\ j \in eligible
    /\ j \in visited
    /\ eState[j] # "Running"
    /\ eligible' = eligible \ {j}
    /\ UNCHANGED <<eEdges, eStart, eState, visited, eCount, eResults, ePhase,
                   clock, ret, restEng>>

\* A running job finishes with an outcome: its Result is written and the
\* destinations of its matching outgoing edges become eligible.
JobFinish(j, ok) ==
    /\ ePhase = "run"
    /\ eState[j] = "Running"
    /\ eState' = [eState EXCEPT ![j] = IF ok THEN "Succeeded" ELSE "Failed"]
    /\ eResults' = eResults \cup {[job |-> j, success |-> ok]}
    /\ eligible' = eligible \cup
          {e.destination : e \in {x \in eEdges :
                                    x.source = j /\ Matches(x.subtype, ok)}}
    /\ UNCHANGED <<eEdges, eStart, visited, eCount, ePhase, clock, ret, restEng>>

\* The run ends when no job is eligible or running; the jobs never reached
\* are Skipped.
RunEnds ==
    /\ ePhase = "run"
    /\ eligible = {}
    /\ \A j \in EJobs : eState[j] # "Running"
    /\ ePhase' = "done"
    /\ eState' = [j \in EJobs |->
                    IF eState[j] = "Pending" THEN "Skipped" ELSE eState[j]]
    /\ UNCHANGED <<eEdges, eStart, eligible, visited, eCount, eResults,
                   clock, ret, restEng>>

\* The result of the workflow: failed as soon as an executed job failed.
WorkflowSuccess == \A r \in eResults : r.success

\* ======================================================= leaf service runs
\*
\* A leaf service is executed by Job.run, which is not among the sources; the
\* run below follows the written specification, section 4.4: for each target
\* device the driver is invoked, its success flag and output are captured
\* into a Result, a driver error being captured as a failed Result, and after
\* a final join the success of the job is the conjunction of the successes.

\* The devices a service may be run on.
ServiceDevices == {1, 2, 3}

\* What a driver call may end with.
DriverOutcomes == {"ok", "failed", "error"}

\* No run: the state of the service in the specifications of other parts.
ServiceIdle ==
    /\ svcTargets = {}
    /\ svcInvoked = {}
    /\ svcResults = {}
    /\ svcSuccess = TRUE
    /\ svcPhase = "idle"

\* A run begins on some set of target devices.
InitService ==
    /\ svcTargets \in (SUBSET ServiceDevices) \ {{}}
    /\ svcInvoked = {}
    /\ svcResults = {}
    /\ svcSuccess = TRUE
    /\ svcPhase = "run"

\* The driver is invoked for a device until a device has failed.
MayInvoke_until_failure(d) ==
    /\ d \in svcTargets \ svcInvoked
    /\ \A r \in svcResults : r.success

\* The driver is invoked for every target device, once.
MayInvoke(d) == d \in svcTargets \ svcInvoked

\* The Result that captures a driver call.
DeviceResult(d, outcome) ==
    [device |-> d, success |-> (outcome = "ok"), result |-> outcome]

\* The driver is invoked for device d and its outcome captured; the devices
\* are independent and are taken in any order.
DeviceWork(d, outcome) ==
    /\ svcPhase = "run"
    /\ MayInvoke(d)
    /\ svcInvoked' = svcInvoked \cup {d}
    /\ svcResults' = svcResults \cup {DeviceResult(d, outcome)}
    /\ UNCHANGED <<clock, ret, svcTargets, svcSuccess, svcPhase, restSvc>>

\* The final join: the success of the job is that of all its devices.
ServiceJoin ==
    /\ svcPhase = "run"
    /\ \A d \in svcTargets : ~MayInvoke(d)
    /\ svcSuccess' = (\A r \in svcResults : r.success)
    /\ svcPhase' = "done"
    /\ UNCHANGED <<clock, ret, svcTargets, svcInvoked, svcResults, restSvc>>

\* ================================================================= results
\* The Run and Result rows are written by the run engine, which is not among
\* the sources; the rows follow sections 3 and 4.3 of the written
\* specification.  The queries are translated from the controller.

Runtimes == {1, 2}
DeviceSelectors == {"all", "all passed", "all failed", "global", "1", "2"}
JobSelectors == {"", "1"}
ResultTypes == {"service"}

\* Python values.  A string is a sequence of tokens; "NL", "CR" and "TAB"
\* are the newline, carriage return and tab characters.
Value(t, n, s, items) == [t |-> t, n |-> n, s |-> s, items |-> items]
Item(k, v) == [key |-> k, value |-> v]
PyNone == Value("none", 0, <<>>, <<>>)
PyBool(b) == Value("bool", IF b THEN 1 ELSE 0, <<>>, <<>>)
PyInt(n) == Value("int", n, <<>>, <<>>)
PyStr(s) == Value("str", 0, s, <<>>)
PyList(values) ==
    Value("list", 0, <<>>,
          IF values = <<>> THEN <<>>
          ELSE [i \in 1..Len(values) |-> Item("", values[i])])
PyDict(items) == Value("dict", 0, <<>>, items)

\* The result bodies a service may store.
Bodies ==
    {PyStr(<<"up">>),
     PyStr(<<"a", "NL", "b", "CR", "NL">>),
     PyList(<<PyInt(17), PyNone>>),
     PyDict(<<Item("k", PyList(<<PyStr(<<"x">>), PyStr(<<>>)>>))>>)}

DeviceName(d) == IF d = 1 THEN "d1" ELSE IF d = 2 THEN "d2" ELSE ""

\* A Result row; device_id 0 is None, the global Result of the run.
ResultRow(d, ok, body) ==
    [device_id |-> d, device_name |-> DeviceName(d), success |-> ok,
     result |-> PyDict(<<Item("success", PyBool(ok)), Item("result", body)>>)]

\* No Result or one Result of a device.
DeviceRows(d, bodies) ==
    {<<>>} \cup {<<ResultRow(d, ok, b)>> : ok \in BOOLEAN, b \in bodies}

\* A Run row of job 1: it succeeded when every device succeeded.
RunRow(runtime, rows) ==
    LET ok == \A i \in 1..Len(rows) : rows[i].success
    IN  [job_id |-> 1, runtime |-> runtime, parent_runtime |-> runtime,
         success |-> ok,
         results |-> rows \o <<ResultRow(0, ok, PyStr(<<>>))>>]

NoRun ==
    [job_id |-> 0, runtime |-> 0, parent_runtime |-> 0, success |-> FALSE,
     results |-> <<>>]

\* The contents of the result store: at most one Run per runtime.
Stores ==
    LET first == {RunRow(1, r1 \o r2) :
                    r1 \in DeviceRows(1, Bodies),
                    r2 \in DeviceRows(2, {PyStr(<<"up">>)})}
        second == {RunRow(2, r1) : r1 \in DeviceRows(1, Bodies)}
    IN  {a \cup b : a \in {{}} \cup {{r} : r \in first},
                    b \in {{}} \cup {{r} : r \in second}}

ResultsIdle == runs = {}

InitResults == runs \in Stores

\* fetch("Run", allow_none=True, **request): the matching row or None.
fetch_Run(request) ==
    LET found == {r \in runs :
                    /\ r.job_id = request.job_id
                    /\ IF request.key = "parent_runtime"
                       THEN r.parent_runtime = request.runtime
                       ELSE r.runtime = request.runtime
                    /\ request.filtered => r.success = request.success}
    IN  IF found = {} THEN NoRun ELSE CHOOSE r \in found : TRUE

\* int(device)
DeviceInt(device) == IF device = "1" THEN 1 ELSE 2

\* "all" in device
HasAll(device) == device \in {"all", "all passed", "all failed"}

get_service_results(id, runtime, device, job) ==
    LET runtime_key == IF job # "" THEN "parent_runtime" ELSE "runtime"
        request == [key |-> runtime_key, runtime |-> runtime, job_id |-> id,
                    filtered |-> device \in {"all passed", "all failed"},
                    success |-> device = "all passed"]
        run == fetch_Run(request)
    IN  IF run = NoRun THEN [value |-> PyNone, raised |-> ""]
        ELSE IF ~HasAll(device)
        THEN LET device_id == IF device = "global" THEN 0 ELSE DeviceInt(device)
                 found == SelectSeq(run.results,
                                    LAMBDA r : r.device_id = device_id)
             IN  IF found = <<>>
                 THEN [value |-> PyNone, raised |-> "StopIteration"]
                 ELSE [value |-> found[1].result, raised |-> ""]
        ELSE LET rows == SelectSeq(run.results, LAMBDA r : r.device_id # 0)
             IN  [value |-> PyDict(IF rows = <<>> THEN <<>>
                                   ELSE [i \in 1..Len(rows) |->
                                           Item(rows[i].device_name,
                                                rows[i].result)]),
                  raised |-> ""]

\* The keyword arguments of a results request.
Kwargs(compare, runtime, device, job, runtime_c, device_c, job_c) ==
    [compare |-> compare, runtime |-> runtime, device |-> device, job |-> job,
     runtime_compare |-> runtime_c, device_compare |-> device_c,
     job_compare |-> job_c]

get_results_value(type, id, kw) ==
    IF kw.compare
    THEN get_service_results(id, kw.runtime_compare, kw.device_compare,
                             kw.job_compare)
    ELSE get_service_results(id, kw.runtime, kw.device, kw.job)

\* The queries only read the store: every answer is reached by the first
\* request of a behaviour, and ret holds the answer of that request.
get_results(type, id, kw) ==
    /\ ret = NoRet
    /\ type = "service"
    /\ LET r == get_results_value(type, id, kw)
       IN  ret' = [op |-> "get_results", id |-> id,
                   runtime |-> IF kw.compare THEN kw.runtime_compare
                               ELSE kw.runtime,
                   device |-> IF kw.compare THEN kw.device_compare
                              ELSE kw.device,
                   value |-> r.value, raised |-> r.raised]
    /\ UNCHANGED <<clock, runs, restRes>>

\* -------------------------------------------------------------- comparison

Digits == <<"0", "1", "2", "3", "4", "5", "6", "7", "8", "9">>

RECURSIVE DecimalDigits(_)
DecimalDigits(n) ==
    IF n < 10 THEN <<Digits[n + 1]>>
    ELSE DecimalDigits(n \div 10) \o <<Digits[(n % 10) + 1]>>

\* repr(input) where the code has str(input): a string keeps its quotes.
str_repr(input) ==
    CASE input.t = "str" -> <<"'">> \o input.s \o <<"'">>
      [] input.t = "int" -> DecimalDigits(input.n)
      [] input.t = "bool" -> IF input.n = 1 THEN <<"True">> ELSE <<"False">>
      [] OTHER -> <<"None">>

\* str(input) of a value that is neither a list nor a dict.
str(input) ==
    CASE input.t = "str" -> input.s
      [] input.t = "int" -> DecimalDigits(input.n)
      [] input.t = "bool" -> IF input.n = 1 THEN <<"True">> ELSE <<"False">>
      [] OTHER -> <<"None">>

RECURSIVE Tabs(_)
Tabs(depth) == IF depth = 0 THEN <<>> ELSE <<"TAB">> \o Tabs(depth - 1)

RECURSIVE str_dict(_, _)
RECURSIVE str_dict_list(_, _, _)
RECURSIVE str_dict_items(_, _, _)

\* for element in input: result += f"{tab}- {str_dict(element, depth + 1)}\n"
str_dict_list(items, k, depth) ==
    IF k > Len(items) THEN <<>>
    ELSE Tabs(depth) \o <<"-", " ">> \o str_dict(items[k].value, depth + 1)
         \o <<"NL">> \o str_dict_list(items, k + 1, depth)

\* for key, value in input.items():
\*     result += f"\n{tab}{key}: {str_dict(value, depth + 1)}"
str_dict_items(items, k, depth) ==
    IF k > Len(items) THEN <<>>
    ELSE <<"NL">> \o Tabs(depth) \o <<items[k].key, ":", " ">>
         \o str_dict(items[k].value, depth + 1)
         \o str_dict_items(items, k + 1, depth)

str_dict(input, depth) ==
    IF input.t = "list" THEN <<"NL">> \o str_dict_list(input.items, 1, depth)
    ELSE IF input.t = "dict" THEN str_dict_items(input.items, 1, depth)
    ELSE str(input)

\* The index of the first line boundary of s from k on, or Len(s) + 1.
RECURSIVE FirstBreak(_, _)
FirstBreak(s, k) ==
    IF k > Len(s) \/ s[k] \in {"NL", "CR"} THEN k ELSE FirstBreak(s, k + 1)

\* str.splitlines(): the lines without their boundaries; "\r\n" is one
\* boundary and a final boundary opens no line.
RECURSIVE splitlines(_)
splitlines(s) ==
    IF s = <<>> THEN <<>>
    ELSE LET k == FirstBreak(s, 1)
             next == IF k < Len(s) /\ s[k] = "CR" /\ s[k + 1] = "NL"
                     THEN k + 2 ELSE k + 1
         IN  <<SubSeq(s, 1, k - 1)>> \o splitlines(SubSeq(s, next, Len(s)))

\* SequenceMatcher on sequences of lines; indices count from 0 and ranges
\* are half-open, as in Python.
RECURSIVE MatchLen(_, _, _, _, _, _)
MatchLen(a, b, i, j, ahi, bhi) ==
    IF i < ahi /\ j < bhi /\ a[i + 1] = b[j + 1]
    THEN 1 + MatchLen(a, b, i + 1, j + 1, ahi, bhi)
    ELSE 0

\* The longest matching block of a[alo:ahi] and b[blo:bhi]; of the longest,
\* the one that starts earliest in a and then earliest in b.
find_longest_match(a, b, alo, ahi, blo, bhi) ==
    LET cands == {c \in (alo..(ahi - 1)) \X (blo..(bhi - 1)) :
                    MatchLen(a, b, c[1], c[2], ahi, bhi) > 0}
        size(c) == MatchLen(a, b, c[1], c[2], ahi, bhi)
    IN  IF cands = {} THEN [i |-> alo, j |-> blo, size |-> 0]
        ELSE LET top == {c \in cands : \A d \in cands : size(d) <= size(c)}
                 c == CHOOSE x \in top :
                        \A d \in top :
                            x[1] < d[1] \/ (x[1] = d[1] /\ x[2] <= d[2])
             IN  [i |-> c[1], j |-> c[2], size |-> size(c)]

RECURSIVE MatchingBlocks(_, _, _, _, _, _)
MatchingBlocks(a, b, alo, ahi, blo, bhi) ==
    LET m == find_longest_match(a, b, alo, ahi, blo, bhi)
    IN  IF m.size = 0 THEN <<>>
        ELSE (IF alo < m.i /\ blo < m.j
              THEN MatchingBlocks(a, b, alo, m.i, blo, m.j) ELSE <<>>)
             \o <<m>>
             \o (IF m.i + m.size < ahi /\ m.j + m.size < bhi
                 THEN MatchingBlocks(a, b, m.i + m.size, ahi, m.j + m.size, bhi)
                 ELSE <<>>)

\* Adjacent blocks are joined.
RECURSIVE Collapse(_, _)
Collapse(blocks, cur) ==
    LET out == IF cur.size > 0 THEN <<cur>> ELSE <<>>
    IN  IF blocks = <<>> THEN out
        ELSE LET h == Head(blocks)
             IN  IF cur.i + cur.size = h.i /\ cur.j + cur.size = h.j
                 THEN Collapse(Tail(blocks), [cur EXCEPT !.size = @ + h.size])
                 ELSE out \o Collapse(Tail(blocks), h)

get_matching_blocks(a, b) ==
    Collapse(MatchingBlocks(a, b, 0, Len(a), 0, Len(b)),
             [i |-> 0, j |-> 0, size |-> 0])
    \o <<[i |-> Len(a), j |-> Len(b), size |-> 0]>>

Opcode(tag, i1, i2, j1, j2) ==
    [tag |-> tag, i1 |-> i1, i2 |-> i2, j1 |-> j1, j2 |-> j2]

RECURSIVE Opcodes(_, _, _)
Opcodes(blocks, i, j) ==
    IF blocks = <<>> THEN <<>>
    ELSE LET m == Head(blocks)
             tag == IF i < m.i /\ j < m.j THEN "replace"
                    ELSE IF i < m.i THEN "delete"
                    ELSE IF j < m.j THEN "insert"
                    ELSE ""
         IN  (IF tag # "" THEN <<Opcode(tag, i, m.i, j, m.j)>> ELSE <<>>)
             \o (IF m.size > 0
                 THEN <<Opcode("equal", m.i, m.i + m.size, m.j, m.j + m.size)>>
                 ELSE <<>>)
             \o Opcodes(Tail(blocks), m.i + m.size, m.j + m.size)

get_opcodes(a, b) == Opcodes(get_matching_blocks(a, b), 0, 0)

compare_results(type, id, kw) ==
    /\ ret = NoRet
    /\ type = "service"
    /\ LET x == get_results_value(type, id, [kw EXCEPT !.compare = FALSE])
           y == get_results_value(type, id, [kw EXCEPT !.compare = TRUE])
       IN  IF x.raised # "" \/ y.raised # ""
           THEN ret' = [op |-> "compare_results",
                        raised |-> IF x.raised # "" THEN x.raised ELSE y.raised,
                        x |-> x.value, y |-> y.value,
                        first |-> <<>>, second |-> <<>>, opcodes |-> <<>>]
           ELSE LET first == splitlines(str_dict(PyStr(str_dict(x.value, 0)), 0))
                    second == splitlines(str_dict(y.value, 0))
                IN  ret' = [op |-> "compare_results", raised |-> "",
                            x |-> x.value, y |-> y.value,
                            first |-> first, second |-> second,
                            opcodes |-> get_opcodes(first, second)]
    /\ UNCHANGED <<clock, runs, restRes>>

Init ==
    /\ clock = 0
    /\ ret = NoRet
    /\ InitRun
    /\ InitTask
    /\ InitWf
    /\ EngineIdle
    /\ ResultsIdle
    /\ ServiceIdle

NextTask ==
    \/ \E t \in TaskIds, f \in TaskForms, g \in {0} \cup GivenApsIds :
          TaskCreate(t, f, g)
    \/ \E t \in TaskIds, f \in TaskForms : TaskUpdate(t, f)
    \/ \E a \in TaskActions, t \in TaskIds : task_action(a, t)
    \/ \E t \in TaskIds : delete_instance(t)
    \/ \E x \in timers, last \in BOOLEAN, due \in 1..MaxDue, late \in BOOLEAN :
          Fire(x, last, due, late)
    \/ \E id \in TimerIds : RunDone(id)
    \/ init_scheduler
    \/ \E p \in FormPools, ds \in PoolSets : PoolUpdate(p, ds)

SpecTask == Init /\ [][NextTask]_vars

NextWf ==
    \/ \E w \in WfIds, st \in Subtypes, a \in NodeIds, b \in NodeIds :
          add_edge(w, st, a, b)
    \/ \E w \in WfIds, js \in SUBSET NodeIds \ {{}} : add_jobs_to_workflow(w, js)
    \/ \E w \in WfIds, e \in 1..MaxEdges : delete_edge(w, e)
    \/ \E w \in WfIds, j \in NodeIds : delete_node(w, j)
    \/ \E w \in WfIds, n \in WfIds : duplicate_workflow(w, n)
    \/ \E w \in WfIds, js \in SUBSET NodeIds, p \in PosValues :
          save_positions(w, js, p)

SpecWf == Init /\ [][NextWf]_vars

InitE ==
    /\ clock = 0
    /\ ret = NoRet
    /\ InitRun
    /\ InitTask
    /\ InitWf
    /\ InitEngine
    /\ ResultsIdle
    /\ ServiceIdle

NextEngine ==
    \/ \E j \in EJobs : JobStart(j)
    \/ \E j \in EJobs : JobRevisit(j)
    \/ \E j \in EJobs, ok \in BOOLEAN : JobFinish(j, ok)
    \/ RunEnds

SpecEngine == InitE /\ [][NextEngine]_vars

\* The run engine keeps going: a job that is eligible is taken up and a job
\* that runs finishes (its driver calls return).
SpecEngineLive == SpecEngine /\ WF_vars(NextEngine)

InitR ==
    /\ clock = 0
    /\ ret = NoRet
    /\ InitRun
    /\ InitTask
    /\ InitWf
    /\ EngineIdle
    /\ InitResults
    /\ ServiceIdle

NextResults ==
    \/ \E type \in ResultTypes, id \in Jobs, compare \in BOOLEAN,
          runtime \in Runtimes, device \in DeviceSelectors, job \in JobSelectors :
          get_results(type, id,
                      Kwargs(compare, runtime, device, job, runtime, device, job))
    \/ \E type \in ResultTypes, runtime \in Runtimes, runtime_c \in Runtimes,
          device \in DeviceSelectors, device_c \in DeviceSelectors :
          compare_results(type, 1,
                          Kwargs(TRUE, runtime, device, "", runtime_c, device_c, ""))

SpecResults == InitR /\ [][NextResults]_vars

InitT ==
    /\ clock = 0
    /\ ret = NoRet
    /\ InitRun
    /\ InitTrigger
    /\ InitWf
    /\ EngineIdle
    /\ ResultsIdle
    /\ ServiceIdle

NextTrigger ==
    \/ \E t \in TaskIds : CallKwargs(t)
    \/ \E now \in Nows : IntervalRunTimes(now)

SpecTrigger == InitT /\ [][NextTrigger]_vars

InitS ==
    /\ clock = 0
    /\ ret = NoRet
    /\ InitRun
    /\ InitTask
    /\ InitWf
    /\ EngineIdle
    /\ ResultsIdle
    /\ InitService

NextService ==
    \/ \E d \in ServiceDevices, outcome \in DriverOutcomes : DeviceWork(d, outcome)
    \/ ServiceJoin

SpecService == InitS /\ [][NextService]_vars

\* ================================================= specification: runs

Next ==
    \/ \E j \in Jobs, a \in BOOLEAN : run_job(j, a)
    \/ \E w \in WorkflowIds, v \in 0..MaxTime, inc \in IncludeSets,
          sp \in StartPointSets : restart_workflow(w, v, inc, sp)
    \/ reset_status
    \/ \E d \in sched : FireDate(d)
    \/ \E j \in Jobs : TaskFire(j)
    \/ \E e \in inflight, keys \in SUBSET ChildNames : RunEnd(e, keys)

Spec == Init /\ [][Next]_vars

\* ------------------------------------------------------------ claims C1, C2

\* C1: a run_job or restart_workflow call for a job whose status is Running
\* returns the "already running" error object, adds nothing to the scheduler
\* and changes no job status, in-flight execution or stored Result.
C1_AlreadyRunningNoChange ==
    [][ /\ \A j \in Jobs, a \in BOOLEAN :
              (status[j] = "Running" /\ run_job(j, a)) =>
                  /\ ret'.error = JobType(j) \o " is already running."
                  /\ UNCHANGED <<sched, status, inflight, results>>
        /\ \A w \in WorkflowIds, v \in 0..MaxTime, inc \in IncludeSets,
              sp \in StartPointSets :
              (status[w] = "Running" /\ restart_workflow(w, v, inc, sp)) =>
                  /\ ret'.error = "Workflow is already running."
                  /\ UNCHANGED <<sched, status, inflight, results>>
      ]_vars

\* A call was refused as already running while an execution is in flight and
\* a one-shot job waits in the scheduler.
C1_Witness ==
    /\ ret.op \in {"run_job", "restart_workflow"}
    /\ ret.error # ""
    /\ status[ret.job] = "Running"
    /\ \E e \in inflight : e.job = ret.job
    /\ sched # {}

\* C2: at most one execution of a job is in flight at any time.
C2_OneExecutionPerJob ==
    \A e1, e2 \in inflight : e1.job = e2.job => e1 = e2

\* ------------------------------------------------------------------ claim C28

\* The execution of job j under a runtime.
Execution(j, runtime) == [job |-> j, runtime |-> runtime]

\* C28: a run_job call that succeeds, asynchronous or synchronous, returns the
\* runtime under which its run executes and stores its Results: the run it
\* schedules or starts carries the returned runtime, the scheduled run starts
\* under the runtime it carries, and an execution stores its Result under the
\* runtime it runs under.
C28_ReturnedRuntimeIsRunRuntime ==
    [][/\ \A j \in Jobs, a \in BOOLEAN :
             (status[j] # "Running" /\ run_job(j, a)) =>
                 IF a
                 THEN /\ \E d \in sched' \ sched :
                            d.job = j /\ d.runtime = ret'.runtime
                      /\ inflight' = inflight
                 ELSE inflight' \ inflight = {Execution(j, ret'.runtime)}
       /\ \A d \in sched :
             (d.caller = "run_job" /\ FireDate(d)) =>
                 inflight' \ inflight \subseteq {Execution(d.job, d.runtime)}
       /\ \A e \in inflight, keys \in SUBSET ChildNames :
             RunEnd(e, keys) =>
                 \A r \in results' \ results :
                     r.job_id = e.job /\ r.runtime = e.runtime]_vars

\* An asynchronous run_job call has returned a runtime, its run has started
\* later, at a later time, and has stored its Result under the runtime returned.
C28_Witness ==
    /\ ret.op = "run_job"
    /\ ret.error = ""
    /\ clock > ret.runtime + 1
    /\ sched = {}
    /\ inflight = {}
    /\ \E r \in results : r.job_id = ret.job /\ r.runtime = ret.runtime

\* ----------------------------------------------------------- claims C3, C10

\* The steps in which Task.schedule runs for task t: a creation or an update
\* that leaves the task active, and resume.
ScheduleCalled(t) ==
    \/ \E f \in TaskForms, g \in {0} \cup GivenApsIds :
          f.is_active /\ TaskCreate(t, f, g)
    \/ \E f \in TaskForms : f.is_active /\ TaskUpdate(t, f)
    \/ task_action("resume", t)

\* C3: after a step that calls Task.schedule the scheduler holds exactly one
\* timer under the task's aps_job_id, carrying the task's current trigger; if a
\* timer was held under that id before, it is the same timer (same identity),
\* else it is a newly created one; and no step leaves two timers under one id.
C3_ScheduleIdempotent ==
    [][ /\ \A t \in TaskIds : ScheduleCalled(t) =>
              LET id == task'[t].aps_job_id
                  before == {x \in timers : x.id = id}
                  after == {x \in timers' : x.id = id}
              IN  /\ Cardinality(after) = 1
                  /\ \A x \in after : x.trigger = kwargs(task'[t]).trigger
                  /\ before # {} => {x.uid : x \in after} = {x.uid : x \in before}
                  /\ before = {} => \A x \in after, y \in timers : x.uid # y.uid
        /\ \A x, y \in timers' : x.id = y.id => x = y
      ]_vars

\* An update has rescheduled, in place, the timer that an earlier call created
\* and that has fired since: only one timer was ever created for the task.
C3_Witness ==
    \E t \in TaskIds :
        /\ task[t].exists /\ task[t].is_active
        /\ ret.op = "update"
        /\ nextUid = 1
        /\ lastFire.id = task[t].aps_job_id
        /\ \E x \in timers :
              x.id = task[t].aps_job_id /\ x.uid = 1 /\ x.trigger.trigger = "interval"

\* The scheduler holds no timer under the aps_job_id of the existing task t.
Unknown(t) == task[t].exists /\ get_job(Store, task[t].aps_job_id) = {}

NoLongerExists == "This task no longer exists."

LiveTimers(t) == {x \in timers : x.id = task[t].aps_job_id /\ ~x.paused}

\* Task t exists and the scheduler holds its timer paused.
TimerPaused(t) ==
    /\ task[t].exists
    /\ \E x \in timers : x.id = task[t].aps_job_id /\ x.paused

\* A timer under the aps_job_id of task t fires.
FiresFor(t) ==
    \E x \in timers, last \in BOOLEAN, due \in 1..MaxDue, late \in BOOLEAN :
        x.id = task[t].aps_job_id /\ Fire(x, last, due, late)

\* The post-state of Task.pause on a task with a live timer.
PauseEffect(t) ==
    (LiveTimers(t) # {} /\ task_action("pause", t)) =>
        /\ ret'.error = "" /\ ret'.raised = ""
        /\ LiveTimers(t)' = {}
        /\ task'[t].exists
        /\ ~task'[t].is_active

\* C11 as stated: after Task.pause on a task with a live timer the task has no
\* live timer, the row still exists and is_active is false; and as long as
\* resume is not called the timer stays off and does not fire.
C11_PausedUntilResume ==
    [][ \A t \in TaskIds :
            /\ PauseEffect(t)
            /\ (TimerPaused(t) /\ ~task_action("resume", t)) =>
                  ~FiresFor(t) /\ LiveTimers(t)' = {}
      ]_vars

\* C11 as amended: the same, where the timer stays off and does not fire as
\* long as neither resume nor an update or deletion of the task is called;
\* an update that leaves the task active puts the timer back.
C11_PausedUntilRescheduled ==
    [][ \A t \in TaskIds :
            /\ PauseEffect(t)
            /\ (/\ TimerPaused(t)
                /\ ~task_action("resume", t)
                /\ ~\E f \in TaskForms : f.is_active /\ TaskUpdate(t, f)) =>
                  ~FiresFor(t) /\ LiveTimers(t)' = {}
            /\ \A f \in TaskForms :
                  (TimerPaused(t) /\ f.is_active /\ TaskUpdate(t, f)) =>
                      LiveTimers(t)' # {} /\ task'[t].is_active
      ]_vars

\* A task whose timer had fired was paused: the timer is held, paused.
C11_Witness ==
    \E t \in TaskIds :
        /\ ret.op = "task_action" /\ ret.action = "pause" /\ ret.error = ""
        /\ TimerPaused(t)
        /\ ~task[t].is_active
        /\ lastFire.id = task[t].aps_job_id
        /\ lastFire.calls = 1

\* The timers the scheduler holds under the aps_job_id of task t (of the row,
\* or of what is left of it once deleted).
TimersOf(t) == {x \in timers : x.id = task[t].aps_job_id}

\* The steps in which Task.delete_task runs for task t.
DeleteCalled(t) == task_action("delete_task", t) \/ delete_instance(t)

\* The post-state of Task.delete_task: no timer is held under the task's
\* aps_job_id, and the instances in flight are left to run.
DeleteEffect(t) ==
    (task[t].exists /\ DeleteCalled(t)) =>
        /\ ret'.raised = ""
        /\ \A x \in timers' : x.id # task[t].aps_job_id
        /\ timers' \subseteq timers
        /\ instances' = instances

\* C12 as stated: after delete_task the scheduler holds no timer under the
\* task's aps_job_id and a run in flight is left alone; and the task does not
\* fire again: once delete_task has returned, no later step puts a timer
\* under that id.
C12_DeletedNeverFires ==
    [][ \A t \in TaskIds :
            /\ DeleteEffect(t)
            /\ (/\ ret.op = "task_action" /\ ret.action = "delete_task"
                /\ ret.task = t
                /\ TimersOf(t) = {}) =>
                  TimersOf(t)' = {}
      ]_vars

\* C12 as amended: after delete_task the scheduler holds no timer under the
\* task's aps_job_id and a run in flight is left alone; the id gets no timer
\* and does not fire again unless Task.schedule is called again for the row
\* (resume, or an update that leaves it active), and never once the row is
\* deleted.
C12_DeletedUntilRescheduled ==
    [][ \A t \in TaskIds :
            /\ DeleteEffect(t)
            /\ (task[t] # NoTask /\ TimersOf(t) = {} /\ ~ScheduleCalled(t)) =>
                  ~FiresFor(t) /\ TimersOf(t)' = {}
            /\ (task[t] # NoTask /\ ~task[t].exists) =>
                  TimersOf(t) = {} /\ ~ScheduleCalled(t)
      ]_vars

\* delete_task has returned while an instance of the task's job started by an
\* earlier fire is still running.
C12_Witness ==
    \E t \in TaskIds :
        /\ ret.op = "task_action" /\ ret.action = "delete_task" /\ ret.error = ""
        /\ task[t].exists
        /\ TimersOf(t) = {}
        /\ lastFire.id = task[t].aps_job_id
        /\ instances[task[t].aps_job_id] > 0

\* ------------------------------------------------------------------ claim C16

\* A fire of a timer of task t that calls the job function dispatches the
\* targets and the payload the task resolves to at that moment.
DispatchesResolved(t) ==
    (FiresFor(t) /\ lastFire'.calls > 0) =>
        /\ lastFire'.args[3] = compute_targets(task[t])
        /\ lastFire'.args[4] = task[t].payload

\* C16: whenever the timer of a task fires, the device set and the payload
\* dispatched to the run are the targets and the payload the task resolves to
\* at fire time, also after an update of its devices, pools or payload or a
\* change of the membership of one of its pools.
C16_DispatchAtFireTime ==
    [][\A t \in TaskIds : task[t].exists => DispatchesResolved(t)]_vars

\* ------------------------------------------------------------------ claim C17

\* The keys of a dict held as a set of items.
Keys(payload) == {p.key : p \in payload}

\* The payload of the scheduler job a restart_workflow call has added is that
\* of the stored Result of the workflow and payload version, cut down to the
\* top-level keys in payloads_to_include, and empty without such a Result.
RestartPayloadIsStored(w, payload_version, payloads_to_include) ==
    \E d \in sched' \ sched :
        /\ d.caller = "restart_workflow"
        /\ LET found == {r \in results : /\ r.job_id = w
                                         /\ r.runtime = payload_version}
           IN  IF found = {} THEN d.payload = {}
               ELSE \E r \in found :
                       /\ Keys(d.payload) = Keys(r.payload) \cap payloads_to_include
                       /\ d.payload \subseteq r.payload

\* C17: restart_workflow hands the run a payload whose keys are the top-level
\* keys of the stored results of the prior run (of payload_version) that are
\* in payloads_to_include, each with its stored value as it is, nested keys
\* included; without a prior Result the payload is empty.
C17_RestartPayload ==
    [][\A w \in WorkflowIds, v \in 0..MaxTime, inc \in IncludeSets,
          sp \in StartPointSets :
            (status[w] # "Running" /\ restart_workflow(w, v, inc, sp))
                => RestartPayloadIsStored(w, v, inc)]_vars

\* A restart is scheduled with child "a" of a stored Result that holds "a" and
\* "b", the value of "a" still holding its nested "b".
C17_Witness ==
    \E d \in sched, r \in results :
        /\ d.caller = "restart_workflow"
        /\ r.job_id = d.job
        /\ Keys(r.payload) = {"a", "b"}
        /\ Keys(d.payload) = {"a"}
        /\ d.payload \subseteq r.payload
        /\ \A p \in d.payload : Keys(p.value) = {"a", "b"}

\* ------------------------------------------------------------------ claim C18

\* C18: a call of run_job or restart_workflow returns the serialized state of
\* the job together with a runtime, or an error object, whether the call
\* starts a run or finds the job running.
C18_StateOrError ==
    ret.op \in {"run_job", "restart_workflow"} =>
        \/ ret.error # ""
        \/ {"serialized", "runtime"} \subseteq DOMAIN ret

\* ------------------------------------------------------------------ claim C19

\* C19: in a run of a leaf service over target devices the driver is invoked
\* for every target device, also after a device has failed; one Result is
\* written per device; and the success of the job is the conjunction of the
\* success flags of the devices.
C19_EveryDeviceRuns ==
    svcPhase = "done" =>
        /\ svcInvoked = svcTargets
        /\ \A d \in svcTargets :
              Cardinality({r \in svcResults : r.device = d}) = 1
        /\ \A r \in svcResults : r.device \in svcTargets
        /\ svcSuccess = (\A d \in svcTargets :
                            \E r \in svcResults : r.device = d /\ r.success)

\* A run over three devices is over: the first device failed, the driver of
\* the second raised, the third succeeded, and the job has failed.
C19_Witness ==
    /\ svcPhase = "done"
    /\ svcTargets = {1, 2, 3}
    /\ svcResults = {DeviceResult(1, "failed"), DeviceResult(2, "error"),
                     DeviceResult(3, "ok")}
    /\ ~svcSuccess

\* ------------------------------------------------------------------ claim C20

\* C20: at most 3 instances of one scheduler job id run at a time: a fire
\* that finds 3 instances of its id running executes nothing and starts none,
\* and a fire at which several run times of its id are due executes one call.
C20_ThreeInstancesCoalesced ==
    [][/\ \A id \in TimerIds : instances'[id] <= 3
       /\ \A x \in timers, last \in BOOLEAN, due \in 1..MaxDue, late \in BOOLEAN :
             Fire(x, last, due, late) =>
                 /\ instances[x.id] >= 3 =>
                       lastFire'.calls = 0 /\ instances' = instances
                 /\ lastFire'.calls <= 1]_vars

\* Three instances of a timer's id are running and its last fire, a fourth,
\* was not executed.
C20_Witness ==
    \E x \in timers :
        /\ instances[x.id] = 3
        /\ lastFire.id = x.id
        /\ lastFire.calls = 0

\* ------------------------------------------------------------------ claim C21

\* The timers a scheduler holds, as ids and triggers.
Registered(store) == {[id |-> x.id, trigger |-> x.trigger] : x \in store}

C22_ActiveIffLiveTimer ==
    \A t \in TaskIds :
        task[t].exists => (task[t].is_active <=> LiveTimers(t) # {})

\* ------------------------------------------------------------------ claim C23

\* A call that creates task t, updates it or applies an action to it.
TaskCall(t) ==
    \/ \E f \in TaskForms, g \in {0} \cup GivenApsIds : TaskCreate(t, f, g)
    \/ \E f \in TaskForms : TaskUpdate(t, f)
    \/ \E a \in TaskActions : task_action(a, t)

TerminalStates == {"Succeeded", "Failed", "Skipped"}

\* C24: every workflow run ends, on every graph, cycles included; it ends
\* when no job is eligible any more, and then every member job is Succeeded,
\* Failed or Skipped, none Pending or Running.
C24_RunTerminates ==
    /\ <>(ePhase = "done")
    /\ [](ePhase = "done" =>
            /\ eligible = {}
            /\ \A j \in EJobs : eState[j] \in TerminalStates)

\* A run on a graph with a cycle is over, with a job that was reached again
\* executed once.
C24_Witness ==
    /\ ePhase = "done"
    /\ \E a \in EJobs, b \in EJobs :
          /\ a # b
          /\ \E e \in eEdges : e.source = a /\ e.destination = b
          /\ \E e \in eEdges : e.source = b /\ e.destination = a
          /\ eCount[a] = 1 /\ eCount[b] = 1
    /\ \A j \in EJobs : eState[j] \in TerminalStates

\* ------------------------------------------------- claims C13, C14, C15

\* The row Task.kwargs was last applied to, with self.periodic as it left it.
KwargsRow == task[ret.task]

\* The interval trigger of a row: bounded by the optional start and end dates.
IntervalOf(row, trigger) ==
    /\ trigger.trigger = "interval"
    /\ trigger.start_date = aps_date(row, "start_date")
    /\ trigger.end_date = aps_date(row, "end_date")

\* The one-shot trigger of a row: at its start date.
DateOf(row, trigger) ==
    /\ trigger.trigger = "date"
    /\ trigger.run_date = aps_date(row, "start_date")

\* C13 as stated: a crontab expression that is set gives a cron trigger, the
\* cron scheduling mode and a periodic task; otherwise a frequency above zero
\* gives an interval trigger bounded by the start and end dates and a periodic
\* task; otherwise the task gets a one-shot trigger at its start date and is
\* not periodic.
C13_ByCrontab ==
    ret.op = "kwargs" =>
        IF KwargsRow.crontab_expression # <<>>
        THEN /\ ret.trigger.trigger = "cron"
             /\ KwargsRow.scheduling_mode = "cron"
             /\ KwargsRow.periodic
        ELSE IF KwargsRow.frequency > 0
        THEN IntervalOf(KwargsRow, ret.trigger) /\ KwargsRow.periodic
        ELSE DateOf(KwargsRow, ret.trigger) /\ ~KwargsRow.periodic

\* C13, amended: the scheduling mode selects.  In cron mode the task is
\* periodic and gets the cron trigger of its crontab expression, and
\* Task.kwargs raises when that expression does not have five fields; in any
\* other mode a frequency other than zero gives an interval trigger bounded by
\* the start and end dates and a periodic task, and a zero frequency a
\* one-shot trigger at the start date and a task that is not periodic.
C13_ByMode ==
    ret.op = "kwargs" =>
        IF KwargsRow.scheduling_mode = "cron"
        THEN /\ KwargsRow.periodic
             /\ IF Len(KwargsRow.crontab_expression) = 5
                THEN /\ ret.raised = ""
                     /\ ret.trigger.trigger = "cron"
                     /\ ret.trigger.crontab = KwargsRow.crontab_expression
                ELSE ret.raised # ""
        ELSE /\ ret.raised = ""
             /\ IF KwargsRow.frequency # 0
                THEN IntervalOf(KwargsRow, ret.trigger) /\ KwargsRow.periodic
                ELSE DateOf(KwargsRow, ret.trigger) /\ ~KwargsRow.periodic

\* Task.kwargs has returned a cron trigger for a row that also has a frequency.
C13_Witness ==
    /\ ret.op = "kwargs"
    /\ KwargsRow.scheduling_mode = "cron"
    /\ KwargsRow.frequency > 0
    /\ ret.raised = ""
    /\ ret.trigger.trigger = "cron"
    /\ KwargsRow.periodic

\* The interval C14 states for a row, its table of unit seconds spelled out.
StatedInterval(row) ==
    row.frequency * (CASE row.frequency_unit = "seconds" -> 1
                       [] row.frequency_unit = "minutes" -> 60
                       [] row.frequency_unit = "hours" -> 3600
                       [] row.frequency_unit = "days" -> 86400)

\* C14: a task in standard mode with a frequency above zero hands the
\* scheduler the interval frequency * unit_seconds, with 1, 60, 3600 and 86400
\* seconds in a second, a minute, an hour and a day; its consecutive fires are
\* exactly that many seconds apart and none is before its start date or after
\* its end date.
C14_IntervalSeconds ==
    /\ (/\ ret.op = "kwargs"
        /\ KwargsRow.scheduling_mode # "cron"
        /\ KwargsRow.frequency > 0)
       => /\ ret.trigger.trigger = "interval"
          /\ ret.trigger.seconds = StatedInterval(KwargsRow)
    /\ ret.op = "run_times"
       => /\ \A i \in 1..(Len(ret.times) - 1) :
                ret.times[i + 1] - ret.times[i] = StatedInterval(KwargsRow)
          /\ \A i \in 1..Len(ret.times) :
                /\ KwargsRow.start_date # NoDate
                   => ret.times[i] >= Seconds(aps_date(KwargsRow, "start_date"))
                /\ KwargsRow.end_date # NoDate
                   => ret.times[i] <= Seconds(aps_date(KwargsRow, "end_date"))

\* A task of every two days between DateA and DateB has fired at both dates,
\* and not a third time.
C14_Witness ==
    /\ ret.op = "run_times"
    /\ KwargsRow.frequency = 2
    /\ KwargsRow.frequency_unit = "days"
    /\ KwargsRow.start_date = DateA
    /\ KwargsRow.end_date = DateB
    /\ ret.times = <<Seconds(aps_conversion(DateA)), Seconds(aps_conversion(DateB))>>

\* The targets C15 states for a row: the bound devices and the devices now in
\* one of the bound pools.
StatedTargets(row) ==
    {d \in Devices : d \in row.devices \/ \E p \in row.pools : d \in pool[p]}

\* C15: Task.compute_targets returns the union of the ids of the devices bound
\* to the task and of the devices currently in each of its pools, and nothing
\* else; without devices and pools it returns the empty set, with which the
\* scheduler arguments are built all the same.
C15_TargetsAreUnion ==
    ret.op = "kwargs" =>
        /\ ret.default.args[3] = StatedTargets(KwargsRow)
        /\ (KwargsRow.devices = {} /\ KwargsRow.pools = {})
           => ret.default.args[3] = {}

\* Task.kwargs has computed the targets of a task bound to a device and to two
\* pools, one holding that device too and the other a second device.
C15_Witness ==
    /\ ret.op = "kwargs"
    /\ KwargsRow.devices = {1}
    /\ KwargsRow.pools = {1, 2}
    /\ pool[1] = {2}
    /\ pool[2] = {1}
    /\ ret.default.args[3] = {1, 2}

\* Task.kwargs has computed the empty target set of a task without devices and
\* pools, and has returned its trigger.
C15_EmptyWitness ==
    /\ ret.op = "kwargs"
    /\ KwargsRow.devices = {}
    /\ KwargsRow.pools = {}
    /\ ret.default.args[3] = {}
    /\ ret.raised = ""

\* ------------------------------------------------------------ claims C4, C5

\* C4: after delete_node(workflow, job) has removed a member job, no edge of
\* that workflow whose source or destination is the deleted job is left among
\* the stored edges.
C4_DeleteNodeRemovesEdges ==
    [][ \A w \in WfIds, j \in NodeIds :
            (j \in wfJobs[w] /\ delete_node(w, j)) =>
                ~\E e \in edges' :
                    e.workflow = w /\ (e.source = j \/ e.destination = j)
      ]_vars

\* C5: every edge of a workflow has its source and its destination among the
\* member jobs of that workflow.
C5_EdgesJoinMembers ==
    \A e \in edges :
        e.source \in wfJobs[e.workflow] /\ e.destination \in wfJobs[e.workflow]

\* ------------------------------------------------------------------ claim C25

\* C25: edge names stay unique: add_edge for the workflow, subtype, source
\* and destination of an edge that exists never gives two edges of one name,
\* is answered with an error object and not with an exception, and leaves the
\* edges and last_modified as they were.
C25_DuplicateEdgeIsError ==
    [][\A w \in WfIds, st \in Subtypes, a \in NodeIds, b \in NodeIds :
          ((\E e \in edges : e.name = EdgeName(w, st, a, b)) /\ add_edge(w, st, a, b))
              => /\ \A e \in edges', f \in edges' : e.name = f.name => e = f
                 /\ UNCHANGED <<edges, last_modified>>
                 /\ ret'.raised = ""
                 /\ "error" \in DOMAIN ret']_vars

\* ------------------------------------------------------------------ claim C26

\* A structural mutation of workflow w is called.
Mutation(w) ==
    \/ \E st \in Subtypes, a \in NodeIds, b \in NodeIds : add_edge(w, st, a, b)
    \/ \E js \in SUBSET NodeIds \ {{}} : add_jobs_to_workflow(w, js)
    \/ \E e \in 1..MaxEdges : delete_edge(w, e)
    \/ \E j \in NodeIds : delete_node(w, j)
    \/ \E js \in SUBSET NodeIds, p \in PosValues : save_positions(w, js, p)

Shape(es, w) ==
    {[subtype |-> e.subtype, source |-> e.source, destination |-> e.destination] :
        e \in {x \in es : x.workflow = w}}

\* C27: duplicate_workflow gives a new workflow whose member jobs are those
\* of the parent and whose edges match the parent's one to one, in subtype,
\* source and destination, under names derived from the id of the new
\* workflow; the parent keeps its jobs and its edges, and the jobs their
\* positions for the parent.
C27_DuplicateIsCopy ==
    [][\A w \in WfIds, n \in WfIds :
          duplicate_workflow(w, n) =>
              /\ wfJobs'[n] = wfJobs[w]
              /\ Shape(edges', n) = Shape(edges, w)
              /\ Cardinality({e \in edges' : e.workflow = n})
                    = Cardinality({e \in edges : e.workflow = w})
              /\ \A e \in edges' :
                    e.workflow = n =>
                        e.name = EdgeName(n, e.subtype, e.source, e.destination)
              /\ wfJobs'[w] = wfJobs[w]
              /\ {e \in edges' : e.workflow = w} = {e \in edges : e.workflow = w}
              /\ \A j \in NodeIds : positions'[j][w] = positions[j][w]]_vars

\* ------------------------------------------------------------ claims C6, C7

\* A job that is or was executed in the run.
Executed(j) == eState[j] \in {"Running", "Succeeded", "Failed"}

\* The workflow of the example: A-success->B and A-failure->C.
ExampleGraph ==
    {[subtype |-> "success", source |-> "A", destination |-> "B"],
     [subtype |-> "failure", source |-> "A", destination |-> "C"]}

\* C6: a job that is not a start point is executed only if a job executed in
\* the same run has an outgoing edge to it whose subtype matches that job's
\* outcome or is unconditional; when the run is over every job never reached
\* is Skipped.  With start point A, edges A-success->B and A-failure->C and A
\* failing: B is Skipped, C is executed, the workflow result is failed and
\* exactly two Results exist.
C6_EdgesDriveExecution ==
    /\ \A j \in EJobs :
          (Executed(j) /\ j \notin StartPoints(eEdges, eStart)) =>
              \E e \in eEdges :
                  /\ e.destination = j
                  /\ \/ eState[e.source] = "Succeeded"
                        /\ e.subtype \in {"success", "always"}
                     \/ eState[e.source] = "Failed"
                        /\ e.subtype \in {"failure", "always"}
    /\ ePhase = "done" =>
          \A j \in EJobs :
              /\ eState[j] \in {"Succeeded", "Failed", "Skipped"}
              /\ eCount[j] = 0 <=> eState[j] = "Skipped"
              /\ eCount[j] > 0 <=> \E r \in eResults : r.job = j
    /\ (/\ ePhase = "done"
        /\ eEdges = ExampleGraph
        /\ eStart = {"A"}
        /\ eState["A"] = "Failed") =>
          /\ eState["B"] = "Skipped"
          /\ eState["C"] \in {"Succeeded", "Failed"}
          /\ ~WorkflowSuccess
          /\ Cardinality(eResults) = 2

\* The run of the example is over: A failed and C was executed.
C6_Witness ==
    /\ ePhase = "done"
    /\ eEdges = ExampleGraph
    /\ eStart = {"A"}
    /\ eState["A"] = "Failed"
    /\ eState["C"] = "Succeeded"
    /\ eCount["B"] = 0

\* C7: within one workflow run no member job is executed more than once,
\* whatever the shape of the graph: a job reached a second time is not
\* re-entered.
C7_AtMostOnce ==
    \A j \in EJobs :
        /\ eCount[j] <= 1
        /\ Cardinality({r \in eResults : r.job = j}) <= 1

\* A job that was executed is reached again, by a cycle or a second path.
C7_Witness ==
    \E j \in EJobs :
        /\ j \in eligible
        /\ j \in visited
        /\ eCount[j] = 1
        /\ \E e \in eEdges : e.destination = j /\ Executed(e.source)

\* ------------------------------------------------------------ claims C8, C9

\* The Run of the selected job and runtime.
SelectedRuns(id, runtime) ==
    {r \in runs : r.job_id = id /\ r.runtime = runtime}

\* The per-device Results of a run whose own success flag is ok, by device.
ResultsBySuccess(run, ok) ==
    {Item(run.results[i].device_name, run.results[i].result) :
        i \in {k \in 1..Len(run.results) :
                 /\ run.results[k].device_id # 0
                 /\ run.results[k].success = ok}}

\* The Results a request returned, by device; None returns no Result.
Returned(value) == {value.items[i] : i \in 1..Len(value.items)}

\* C8: get_results with device selector "all failed" (resp. "all passed")
\* returns exactly the per-device Results of the selected runtime whose own
\* success flag is false (resp. true): no passing device's result is included
\* and no failing device's result is omitted.
C8_ExactlyBySuccess ==
    (ret.op = "get_results" /\ ret.device \in {"all passed", "all failed"}) =>
        \A run \in SelectedRuns(ret.id, ret.runtime) :
            /\ ret.raised = ""
            /\ Returned(ret.value)
                  = ResultsBySuccess(run, ret.device = "all passed")

\* C9: comparing a payload with itself yields only 'equal' opcodes that cover
\* the full range of rendered lines, and the two returned line arrays are
\* identical.
C9_DiffWithItself ==
    (ret.op = "compare_results" /\ ret.raised = "" /\ ret.x = ret.y) =>
        LET n == Len(ret.first)
            ops == ret.opcodes
        IN  /\ ret.first = ret.second
            /\ \A k \in 1..Len(ops) :
                  /\ ops[k].tag = "equal"
                  /\ ops[k].i1 = ops[k].j1 /\ ops[k].i2 = ops[k].j2
                  /\ ops[k].i1 = (IF k = 1 THEN 0 ELSE ops[k - 1].i2)
                  /\ ops[k].i1 < ops[k].i2
            /\ n > 0 => Len(ops) > 0 /\ ops[Len(ops)].i2 = n
            /\ n = 0 => ops = <<>>

\* A payload of several devices with nested results was compared with itself.
C9_Witness ==
    /\ ret.op = "compare_results"
    /\ ret.raised = ""
    /\ ret.x = ret.y
    /\ ret.x.t = "dict"
    /\ Len(ret.x.items) = 2
    /\ Len(ret.first) >= 6
    /\ \E k \in 1..Len(ret.first) :
          /\ Len(ret.first[k]) >= 2
          /\ ret.first[k][1] = "TAB"
          /\ ret.first[k][2] = "TAB"
    /\ ret.opcodes = <<Opcode("equal", 0, Len(ret.first), 0, Len(ret.first))>>

====
